---- MODULE Spec2Model ----
(***************************************************************************)
(* The single-slot remix queue: the remix-queue edge function              *)
(* (src/unnamed/part_001, lines 1-169) over the remix_queue table          *)
(* (migration 20260220164430).  Every request runs the handler of          *)
(* serve(): two cleanup deletes, then the branch of its action.  Each      *)
(* awaited store statement is one atomic step; requests interleave         *)
(* between statements.                                                     *)
(***************************************************************************)
EXTENDS Integers, FiniteSets, Sequences, TLC

\* ---- bounds of the model
MaxJobs == 3
MaxReq == 2
MaxTicks == 1
\* the clock of the one-at-a-time runs: steps of QuietTickMinutes, MaxQuietTicks of them
QuietTickMinutes == 25
MaxQuietTicks == 3

\* ---- program constants, in minutes
StaleMinutes == 30
RetentionMinutes == 60
TriggerRetentionMinutes == 60

\* one step of the clock takes every row of the step before past the stale threshold
TickMinutes == StaleMinutes + 1
MaxTime == MaxTicks * TickMinutes

MaxQuietTime == MaxQuietTicks * QuietTickMinutes

\* rows: the remix_queue table; nextId: the next id gen_random_uuid() gives;
\* now: the function's clock (Date.now()); dbNow: the store's clock (now());
\* req: the handlers; out: the answer just sent; cli: the browser clients, one
\* for each job (the page that joined it)
VARIABLES rows, nextId, now, dbNow, req, out, cli

vars == <<rows, nextId, now, dbNow, req, out, cli>>

Ids == 1..MaxJobs
Reqs == 1..MaxReq
NoId == 0
NULL == -1

\* ---- the remix_queue table
NoRow == [status |-> "absent", created_at |-> NULL, started_at |-> NULL, finished_at |-> NULL]

\* (mutation: a job is inserted as running)
NewRowRunning(t) == [status |-> "processing", created_at |-> t, started_at |-> t, finished_at |-> NULL]

\* insert({ status: "waiting" }): created_at defaults to now(), the timestamps to NULL
NewRow(t) == [status |-> "waiting", created_at |-> t, started_at |-> NULL, finished_at |-> NULL]

Exists(tbl, id) == id \in Ids /\ tbl[id].status # "absent"

\* (mutation: only waiting rows count as active)
ActiveStatusesWaitingOnly == {"waiting"}

\* .in("status", ["waiting", "processing"])
ActiveStatuses == {"waiting", "processing"}

\* .in("status", ["done", "error"])
FinishedStatuses == {"done", "error"}

\* (mutation: the cleanup does not look at the age of the row)
IsStaleOfAnyAge(row, t) == row.status \in ActiveStatuses

\* delete().in("status", [waiting, processing]).lt("created_at", now - 30 min)
IsStale(row, t) == row.status \in ActiveStatuses /\ row.created_at < t - StaleMinutes

\* delete().in("status", [done, error]).lt("created_at", now - 60 min)
IsOld(row, t) == row.status \in FinishedStatuses /\ row.created_at < t - RetentionMinutes

\* trigger cleanup_old_queue_entries: finished_at < now() - interval '1 hour'
\* (a NULL finished_at compares as unknown, so the row is kept)
IsOldFinished(row, t) ==
    /\ row.status \in FinishedStatuses
    /\ row.finished_at # NULL
    /\ row.finished_at < t - TriggerRetentionMinutes

\* the three deletes: rows that match are gone, the others are kept
DeleteStale(tbl, t) == [id \in Ids |-> IF IsStale(tbl[id], t) THEN NoRow ELSE tbl[id]]

DeleteOld(tbl, t) == [id \in Ids |-> IF IsOld(tbl[id], t) THEN NoRow ELSE tbl[id]]

DeleteOldFinished(tbl, t) == [id \in Ids |-> IF IsOldFinished(tbl[id], t) THEN NoRow ELSE tbl[id]]

\* (mutation: the count leaves out the rows created at the same instant)
CountAheadStrictlyOlder(tbl, c) ==
    Cardinality({id \in Ids : tbl[id].status \in ActiveStatuses /\ tbl[id].created_at < c})

\* select count where status in (waiting, processing) and created_at <= c
CountAhead(tbl, c) ==
    Cardinality({id \in Ids : tbl[id].status \in ActiveStatuses /\ tbl[id].created_at <= c})

\* `count || 1`: a count of 0 (or a null count) reads as 1
PositionOf(count) == IF count = 0 THEN 1 ELSE count

\* (mutation: a finished job keeps the slot until its row is swept)
SlotHeldUntilSwept(tbl) == \A id \in Ids : tbl[id].status \notin {"processing", "done", "error"}

\* select id where status = processing limit 1; `!processing || length === 0`
NothingProcessing(tbl) == \A id \in Ids : tbl[id].status # "processing"

\* (mutation: the order by created_at is dropped)
FirstWaitingUnordered(tbl) == {id \in Ids : tbl[id].status = "waiting"}

\* select id where status = waiting order by created_at asc limit 1:
\* the rows the store may return first (rows of equal created_at come in any order)
FirstWaiting(tbl) ==
    {id \in Ids : /\ tbl[id].status = "waiting"
                  /\ \A o \in Ids : tbl[o].status = "waiting" => tbl[id].created_at <= tbl[o].created_at}

\* (mutation: any waiting front of the queue counts as the caller's turn)
IsMyTurnWhoeverIsFirst(first, qid) == first # NoId

\* firstWaiting && firstWaiting.length > 0 && firstWaiting[0].id === queue_id
IsMyTurn(first, qid) == first # NoId /\ first = qid

\* the row of qid has status st already, with another instant than t in field
Overwrites(tbl, qid, st, field, t) ==
    qid \in Ids /\ tbl[qid].status = st /\ tbl[qid][field] \notin {NULL, t}

\* (mutation: a timestamp that is already set is kept)
UpdateStatusKeepingFirst(tbl, qid, st, field, t) ==
    [id \in Ids |-> IF id = qid /\ tbl[id].status # "absent"
                    THEN [[tbl[id] EXCEPT !.status = st] EXCEPT ![field] = IF tbl[id][field] = NULL THEN t ELSE tbl[id][field]]
                    ELSE tbl[id]]

\* update(fields).eq("id", qid): changes the row of that id when there is one
UpdateStatus(tbl, qid, st, field, t) ==
    [id \in Ids |-> IF id = qid /\ tbl[id].status # "absent"
                    THEN [[tbl[id] EXCEPT !.status = st] EXCEPT ![field] = t]
                    ELSE tbl[id]]

\* (mutation: can_start is true for every directly reported status)
CanStartOfAnyStatus(st) == TRUE

\* can_start: myEntry.status === "processing"
CanStartOf(st) == st = "processing"

\* myEntry.status === "processing" || myEntry.status === "done"
ReportsDirectly(st) == st \in {"processing", "done"}

\* ---- responses
NoResp == [kind |-> "none", success |-> FALSE, status |-> "", position |-> 0, can_start |-> FALSE, queue_id |-> NoId]

JoinResp(id, pos) == [kind |-> "join", success |-> TRUE, status |-> "", position |-> pos, can_start |-> FALSE, queue_id |-> id]

\* a JSON body without can_start reads as falsy at the client
PositionResp(st, pos, cs) == [kind |-> "position", success |-> TRUE, status |-> st, position |-> pos, can_start |-> cs, queue_id |-> NoId]

OkResp == [kind |-> "ok", success |-> TRUE, status |-> "", position |-> 0, can_start |-> FALSE, queue_id |-> NoId]

ErrorResp == [kind |-> "error", success |-> FALSE, status |-> "", position |-> 0, can_start |-> FALSE, queue_id |-> NoId]

\* ---- requests in flight
Actions == {"join", "position", "done", "error"}

\* a handler: pc is where it stands, my_created_at is myEntry.created_at
\* (data.created_at in join), first is firstWaiting[0].id once it is read
IdleReq == [pc |-> "idle", action |-> "", queue_id |-> NoId, my_created_at |-> NULL, first |-> NoId]

\* the answer the last step sent, if it sent one: to which request, on which
\* branch (path), whether the request's write changed a row (hit, which the code
\* does not read), whether that write replaced a timestamp of an earlier write of
\* the same status (again), and the response
\* (when the step is the return of a job executor call instead, outcome is how
\* that call ended)
NoOut == [action |-> "", queue_id |-> NoId, path |-> "", hit |-> FALSE, again |-> FALSE, resp |-> NoResp, outcome |-> ""]

Answer(r, path, hit, resp) ==
    [action |-> req[r].action, queue_id |-> req[r].queue_id, path |-> path, hit |-> hit,
     again |-> FALSE, resp |-> resp, outcome |-> ""]

\* ---- the browser client of a job (QueueStatus in RepoInput.tsx, Index.tsx)
\* polling: the interval of QueueStatus is set; starts: how many times
\* executeRemix was entered; running: calls of the job executor (github-remix)
\* that have not returned; calls: terminal calls (done or error) issued
NoClient == [polling |-> FALSE, starts |-> 0, running |-> 0, calls |-> 0]

Init ==
    /\ rows = [id \in Ids |-> NoRow]
    /\ nextId = 1
    /\ now = 0
    /\ dbNow = 0
    /\ req = [r \in Reqs |-> IdleReq]
    /\ out = NoOut
    /\ cli = [j \in Ids |-> NoClient]

\* a request with body (a, q) arrives at a free handler, and lines 21-26 run;
\* the body is not read before line 35
SweepStaleStep(r, a, q) ==
    /\ req[r].pc = "idle"
    /\ rows' = DeleteStale(rows, now)
    /\ req' = [req EXCEPT ![r].pc = "sweep_old", ![r].action = a, ![r].queue_id = q]
    /\ UNCHANGED <<nextId, now, dbNow>>

\* a request of whatever body arrives (the body is chosen when it is read)
SweepStale(r) == SweepStaleStep(r, "", NoId) /\ out' = NoOut /\ UNCHANGED cli

\* where the handler goes after req.json(): the branch of its action, or the
\* throw of a missing queue_id
Dispatch(a, q) ==
    CASE a = "join" -> "insert"
      [] a = "position" /\ q # NoId -> "fetch"
      [] a = "done" /\ q # NoId -> "mark_done"
      [] a = "error" /\ q # NoId -> "mark_error"
      [] OTHER -> "throw"

JoinsInFlight == Cardinality({r \in Reqs : req[r].pc = "insert"})

\* lines 28-35: the second delete, then the body is read (action a, queue_id q);
\* a request that throws is answered by the catch of lines 163-168
ReceiveStep(r, a, q) ==
    /\ req[r].pc = "sweep_old"
    /\ rows' = DeleteOld(rows, now)
    /\ a = "join" => q = NoId /\ nextId + JoinsInFlight <= MaxJobs
    /\ LET to == Dispatch(a, q) IN
        IF to = "throw"
        THEN /\ req' = [req EXCEPT ![r] = IdleReq]
             /\ out' = [action |-> a, queue_id |-> q, path |-> "thrown", hit |-> FALSE, again |-> FALSE, resp |-> ErrorResp, outcome |-> ""]
        ELSE /\ req' = [req EXCEPT ![r].action = a, ![r].queue_id = q, ![r].pc = to]
             /\ out' = NoOut
    /\ UNCHANGED <<nextId, now, dbNow>>

\* the same step with every client left as it is
Receive(r, a, q) == ReceiveStep(r, a, q) /\ UNCHANGED cli

\* any client may send any request
SweepOld(r) == \E a \in Actions, q \in Ids \cup {NoId} : Receive(r, a, q)

\* both clocks move on by d minutes, up to max
TickBy(d, max) ==
    /\ now + d <= max
    /\ now' = now + d
    /\ dbNow' = dbNow + d
    /\ out' = NoOut
    /\ UNCHANGED <<rows, nextId, req, cli>>

Tick == TickBy(TickMinutes, MaxTime)

\* the store's clock moves on by d minutes, up to max, within one reading of the
\* function's clock
TickStoreBy(d, max) ==
    /\ dbNow + d <= max
    /\ dbNow' = dbNow + d
    /\ out' = NoOut
    /\ UNCHANGED <<rows, nextId, now, req, cli>>

\* ---- action=join
\* lines 39-50: the insert (created_at defaults to now()), and after it the
\* statement trigger cleanup_queue_on_insert
JoinInsert(r) ==
    /\ req[r].pc = "insert"
    /\ nextId <= MaxJobs
    /\ LET inserted == [rows EXCEPT ![nextId] = NewRow(dbNow)] IN
        rows' = DeleteOldFinished(inserted, dbNow)
    /\ nextId' = nextId + 1
    /\ req' = [req EXCEPT ![r].pc = "join_count", ![r].queue_id = nextId, ![r].my_created_at = dbNow]
    /\ out' = NoOut
    /\ UNCHANGED <<now, dbNow, cli>>

\* lines 52-62
JoinCountStep(r) ==
    /\ req[r].pc = "join_count"
    /\ out' = Answer(r, "joined", TRUE, JoinResp(req[r].queue_id, PositionOf(CountAhead(rows, req[r].my_created_at))))
    /\ req' = [req EXCEPT ![r] = IdleReq]
    /\ UNCHANGED <<rows, nextId, now, dbNow>>

\* the same step with every client left as it is
JoinCount(r) == JoinCountStep(r) /\ UNCHANGED cli

\* ---- action=position
\* (mutation: a missing row is reported as a waiting job)
NotFoundRespAsWaiting == [kind |-> "position", success |-> TRUE, status |-> "waiting", position |-> 1, can_start |-> FALSE, queue_id |-> NoId]

\* status: "not_found" of line 77
NotFoundResp == PositionResp("not_found", 0, FALSE)

\* line 84
DirectResp(st) == PositionResp(st, 0, CanStartOf(st))

\* line 113
PromotedResp == PositionResp("processing", 0, TRUE)

\* (mutation: the answer of the count lets the job start)
WaitingRespReady(count) == PositionResp("waiting", PositionOf(count), TRUE)

\* line 127
WaitingResp(count) == PositionResp("waiting", PositionOf(count), FALSE)

\* lines 69-87: the row is fetched; the handler answers at once, or goes on
FetchStep(r) ==
    /\ req[r].pc = "fetch"
    /\ LET row == rows[req[r].queue_id] IN
        IF row.status = "absent"
        THEN /\ out' = Answer(r, "missing", FALSE, NotFoundResp)
             /\ req' = [req EXCEPT ![r] = IdleReq]
        ELSE IF ReportsDirectly(row.status)
        THEN /\ out' = Answer(r, "direct", FALSE, DirectResp(row.status))
             /\ req' = [req EXCEPT ![r] = IdleReq]
        ELSE /\ out' = NoOut
             /\ req' = [req EXCEPT ![r].pc = "check_processing", ![r].my_created_at = row.created_at]
    /\ UNCHANGED <<rows, nextId, now, dbNow>>

\* the same step with every client left as it is
Fetch(r) == FetchStep(r) /\ UNCHANGED cli

\* lines 89-96
CheckProcessing(r) ==
    /\ req[r].pc = "check_processing"
    /\ req' = [req EXCEPT ![r].pc = IF NothingProcessing(rows) THEN "first_waiting" ELSE "count"]
    /\ out' = NoOut
    /\ UNCHANGED <<rows, nextId, now, dbNow, cli>>

\* lines 98-105
CheckFirstWaiting(r) ==
    /\ req[r].pc = "first_waiting"
    /\ \E f \in (IF FirstWaiting(rows) = {} THEN {NoId} ELSE FirstWaiting(rows)) :
        req' = [req EXCEPT ![r].first = f,
                           ![r].pc = IF IsMyTurn(f, req[r].queue_id) THEN "promote" ELSE "count"]
    /\ out' = NoOut
    /\ UNCHANGED <<rows, nextId, now, dbNow, cli>>

\* the row filter of the promotion update: .eq("id", queue_id) and nothing else
PromoteApplies(tbl, qid) == Exists(tbl, qid)

\* lines 107-115: the update, whose result is not looked at, and the answer
PromoteStep(r) ==
    /\ req[r].pc = "promote"
    /\ LET q == req[r].queue_id
           applies == PromoteApplies(rows, q) IN
        /\ rows' = IF applies THEN UpdateStatus(rows, q, "processing", "started_at", now) ELSE rows
        /\ out' = [Answer(r, "promoted", applies, PromotedResp) EXCEPT
                        !.again = Overwrites(rows, q, "processing", "started_at", now)]
    /\ req' = [req EXCEPT ![r] = IdleReq]
    /\ UNCHANGED <<nextId, now, dbNow>>

\* the same step with every client left as it is
Promote(r) == PromoteStep(r) /\ UNCHANGED cli

\* lines 119-129
CountStep(r) ==
    /\ req[r].pc = "count"
    /\ out' = Answer(r, "counted", FALSE, WaitingResp(CountAhead(rows, req[r].my_created_at)))
    /\ req' = [req EXCEPT ![r] = IdleReq]
    /\ UNCHANGED <<rows, nextId, now, dbNow>>

\* the same step with every client left as it is
Count(r) == CountStep(r) /\ UNCHANGED cli

\* ---- action=done, action=error
\* the row filter of the terminal update: .eq("id", queue_id) and nothing else
MarkApplies(tbl, qid) == Exists(tbl, qid)

\* lines 136-144
MarkDone(r) ==
    /\ req[r].pc = "mark_done"
    /\ LET q == req[r].queue_id
           applies == MarkApplies(rows, q) IN
        /\ rows' = IF applies THEN UpdateStatus(rows, q, "done", "finished_at", now) ELSE rows
        /\ out' = [Answer(r, "marked", applies, OkResp) EXCEPT
                        !.again = Overwrites(rows, q, "done", "finished_at", now)]
    /\ req' = [req EXCEPT ![r] = IdleReq]
    /\ UNCHANGED <<nextId, now, dbNow, cli>>

\* lines 151-159
MarkError(r) ==
    /\ req[r].pc = "mark_error"
    /\ LET q == req[r].queue_id
           applies == MarkApplies(rows, q) IN
        /\ rows' = IF applies THEN UpdateStatus(rows, q, "error", "finished_at", now) ELSE rows
        /\ out' = [Answer(r, "marked", applies, OkResp) EXCEPT
                        !.again = Overwrites(rows, q, "error", "finished_at", now)]
    /\ req' = [req EXCEPT ![r] = IdleReq]
    /\ UNCHANGED <<nextId, now, dbNow, cli>>

\* ---- the system: any client may send any request at any time
Step(r) ==
    \/ SweepStale(r)
    \/ SweepOld(r)
    \/ JoinInsert(r)
    \/ JoinCount(r)
    \/ Fetch(r)
    \/ CheckProcessing(r)
    \/ CheckFirstWaiting(r)
    \/ Promote(r)
    \/ Count(r)
    \/ MarkDone(r)
    \/ MarkError(r)

Next == (\E r \in Reqs : Step(r)) \/ Tick

Spec == Init /\ [][Next]_vars

\* ---- the queue inside one stale window: the store's clock moves minute by
\* minute, so that jobs are created at distinct instants, and stays within
\* WindowMinutes of the first join, so that no row is swept; every started_at and
\* finished_at is written at one reading of the function's clock
WindowMinutes == MaxJobs - 1

TickInWindow == TickStoreBy(1, WindowMinutes)

NextInWindow == (\E r \in Reqs : Step(r)) \/ TickInWindow

SpecInWindow == Init /\ [][NextInWindow]_vars

\* ---- the same with cooperating clients: done / error are sent only for a job
\* that is running
SweepOldRunningOnly(r) ==
    \E a \in Actions, q \in Ids :
        /\ a \in {"done", "error"} => rows[q].status = "processing"
        /\ Receive(r, a, IF a = "join" THEN NoId ELSE q)

StepCooperating(r) ==
    \/ SweepStale(r)
    \/ SweepOldRunningOnly(r)
    \/ JoinInsert(r)
    \/ JoinCount(r)
    \/ Fetch(r)
    \/ CheckProcessing(r)
    \/ CheckFirstWaiting(r)
    \/ Promote(r)
    \/ Count(r)
    \/ MarkDone(r)
    \/ MarkError(r)

NextCooperating == (\E r \in Reqs : StepCooperating(r)) \/ TickInWindow

SpecCooperating == Init /\ [][NextCooperating]_vars

\* ---- requests one at a time: a request arrives only when no other is in
\* flight, and the clocks move between requests, QuietTickMinutes at a time; any
\* client may send any request
NoneInFlight == \A r \in Reqs : req[r].pc = "idle"

SweepStaleAlone(r) == NoneInFlight /\ SweepStale(r)

TickBetweenRequests == NoneInFlight /\ TickBy(QuietTickMinutes, MaxQuietTime)

StepSequential(r) ==
    \/ SweepStaleAlone(r)
    \/ SweepOld(r)
    \/ JoinInsert(r)
    \/ JoinCount(r)
    \/ Fetch(r)
    \/ CheckProcessing(r)
    \/ CheckFirstWaiting(r)
    \/ Promote(r)
    \/ Count(r)
    \/ MarkDone(r)
    \/ MarkError(r)

NextSequential == (\E r \in Reqs : StepSequential(r)) \/ TickBetweenRequests

SpecSequential == Init /\ [][NextSequential]_vars

\* ---- store failures: a statement that fails gives { data: null, count: null,
\* error } and changes no row; the handler goes on as its code says
\* lines 22-26: the result of the delete is not looked at
SweepStaleFails(r) ==
    /\ NoneInFlight
    /\ req[r].pc = "idle"
    /\ req' = [req EXCEPT ![r].pc = "sweep_old"]
    /\ out' = NoOut
    /\ UNCHANGED <<rows, nextId, now, dbNow, cli>>

\* lines 28-35: the result of the delete is not looked at; the body is read
SweepOldFails(r) ==
    \E a \in Actions, q \in Ids \cup {NoId} :
        /\ req[r].pc = "sweep_old"
        /\ a = "join" => q = NoId /\ nextId + JoinsInFlight <= MaxJobs
        /\ LET to == Dispatch(a, q) IN
            IF to = "throw"
            THEN /\ req' = [req EXCEPT ![r] = IdleReq]
                 /\ out' = [action |-> a, queue_id |-> q, path |-> "thrown", hit |-> FALSE, again |-> FALSE, resp |-> ErrorResp, outcome |-> ""]
            ELSE /\ req' = [req EXCEPT ![r].action = a, ![r].queue_id = q, ![r].pc = to]
                 /\ out' = NoOut
        /\ UNCHANGED <<rows, nextId, now, dbNow, cli>>

\* line 50: `if (error) throw error`, answered by the catch of lines 163-168
JoinInsertFails(r) ==
    /\ req[r].pc = "insert"
    /\ out' = Answer(r, "insert_failed", FALSE, ErrorResp)
    /\ req' = [req EXCEPT ![r] = IdleReq]
    /\ UNCHANGED <<rows, nextId, now, dbNow, cli>>

\* lines 53-60: count is null, `count || 1`
JoinCountFails(r) ==
    /\ req[r].pc = "join_count"
    /\ out' = Answer(r, "join_count_failed", FALSE, JoinResp(req[r].queue_id, PositionOf(0)))
    /\ req' = [req EXCEPT ![r] = IdleReq]
    /\ UNCHANGED <<rows, nextId, now, dbNow, cli>>

\* line 75: `error || !myEntry`
FetchFails(r) ==
    /\ req[r].pc = "fetch"
    /\ out' = Answer(r, "fetch_failed", FALSE, NotFoundResp)
    /\ req' = [req EXCEPT ![r] = IdleReq]
    /\ UNCHANGED <<rows, nextId, now, dbNow, cli>>

\* lines 90-96: processing is null, `!processing` holds
CheckProcessingFails(r) ==
    /\ req[r].pc = "check_processing"
    /\ req' = [req EXCEPT ![r].pc = "first_waiting"]
    /\ out' = NoOut
    /\ UNCHANGED <<rows, nextId, now, dbNow, cli>>

\* lines 98-105: firstWaiting is null, the condition of line 105 fails
CheckFirstWaitingFails(r) ==
    /\ req[r].pc = "first_waiting"
    /\ req' = [req EXCEPT ![r].first = NoId, ![r].pc = "count"]
    /\ out' = NoOut
    /\ UNCHANGED <<rows, nextId, now, dbNow, cli>>

\* lines 107-115: the result of the update is not looked at
PromoteFails(r) ==
    /\ req[r].pc = "promote"
    /\ out' = Answer(r, "promoted", FALSE, PromotedResp)
    /\ req' = [req EXCEPT ![r] = IdleReq]
    /\ UNCHANGED <<rows, nextId, now, dbNow, cli>>

\* lines 120-127: count is null, `count || 1`
CountFails(r) ==
    /\ req[r].pc = "count"
    /\ out' = Answer(r, "count_failed", FALSE, WaitingResp(0))
    /\ req' = [req EXCEPT ![r] = IdleReq]
    /\ UNCHANGED <<rows, nextId, now, dbNow, cli>>

\* lines 136-144 and 151-159: the result of the update is not looked at
MarkFails(r) ==
    /\ req[r].pc \in {"mark_done", "mark_error"}
    /\ out' = Answer(r, "marked", FALSE, OkResp)
    /\ req' = [req EXCEPT ![r] = IdleReq]
    /\ UNCHANGED <<rows, nextId, now, dbNow, cli>>

StepFailing(r) ==
    \/ SweepStaleFails(r)
    \/ SweepOldFails(r)
    \/ JoinInsertFails(r)
    \/ JoinCountFails(r)
    \/ FetchFails(r)
    \/ CheckProcessingFails(r)
    \/ CheckFirstWaitingFails(r)
    \/ PromoteFails(r)
    \/ CountFails(r)
    \/ MarkFails(r)

\* requests one at a time, each store statement of which may fail, all within one
\* reading of the clocks
NextFailing == \E r \in Reqs : StepSequential(r) \/ StepFailing(r)

SpecFailing == Init /\ [][NextFailing]_vars

\* ---- the clients: every request is sent by the page of a job
\* (mutation: a join answered with position <= 1 starts the remix at once)
StartsOnJoinWhenFirst(pos) == pos <= 1

\* Index.tsx lines 166-171: a join answered with position <= 1 only logs
\* "Fila livre!"; nothing is started on a join answer
StartsOnJoin(pos) == FALSE

\* Index.tsx lines 182-218: executeRemix: setInQueue(false) unmounts QueueStatus
\* (its interval is cleared) and github-remix is invoked
ExecuteRemix(c) == [c EXCEPT !.polling = FALSE, !.starts = @ + 1, !.running = @ + 1]

\* Index.tsx lines 160-171: the join answer: setQueueId, setInQueue(true), which
\* mounts QueueStatus and sets its interval
OnJoined(c, resp) ==
    IF ~resp.success THEN c
    ELSE IF StartsOnJoin(resp.position) THEN ExecuteRemix(c)
    ELSE [c EXCEPT !.polling = TRUE]

\* RepoInput.tsx lines 66-77: the answer of a poll: a failed call is dropped, an
\* answer with can_start clears the interval and calls onCanStart (onQueueReady,
\* executeRemix), any other answer is only displayed
OnPosition(c, resp) ==
    IF resp.kind = "error" THEN c
    ELSE IF resp.can_start THEN ExecuteRemix(c)
    ELSE c

\* the answer o reaches the page that sent the request
Deliver(o) ==
    CASE o.action = "join" /\ o.resp.kind = "join" ->
            [cli EXCEPT ![o.resp.queue_id] = OnJoined(@, o.resp)]
      [] o.action = "position" /\ o.queue_id \in Ids ->
            [cli EXCEPT ![o.queue_id] = OnPosition(@, o.resp)]
      [] OTHER -> cli

\* joins sent whose row is not inserted yet
JoinsSent == Cardinality({r \in Reqs : req[r].action = "join" /\ req[r].pc \in {"sweep_old", "insert"}})

\* Index.tsx lines 141-157: onPaymentConfirmed sends a join
OnPaymentConfirmed(r) ==
    /\ nextId + JoinsSent <= MaxJobs
    /\ SweepStaleStep(r, "join", NoId)
    /\ out' = NoOut
    /\ UNCHANGED cli

\* RepoInput.tsx lines 47-64: checkPosition, called on mount and by the interval
\* every 2 s without waiting for the answer of the call before
CheckPosition(r, j) ==
    /\ cli[j].polling
    /\ SweepStaleStep(r, "position", j)
    /\ out' = NoOut
    /\ UNCHANGED cli

\* lines 28-35 for the request the page sent
ReceiveSent(r) == Receive(r, req[r].action, req[r].queue_id)

JoinCountDelivered(r) == JoinCountStep(r) /\ cli' = Deliver(out')

FetchDelivered(r) == FetchStep(r) /\ cli' = Deliver(out')

PromoteDelivered(r) == PromoteStep(r) /\ cli' = Deliver(out')

CountDelivered(r) == CountStep(r) /\ cli' = Deliver(out')

\* how a call of github-remix ends at the page: {success: true}, {success: false}
\* with status 200 (the catch of the function), or a failed invocation
Outcomes == {"success", "reported_failure", "thrown"}

\* (mutation: the terminal call is skipped)
HasQueueIdNever(qid) == qid = NoId

\* Index.tsx lines 249 and 268: if (queueId)
HasQueueId(qid) == qid # NoId

\* Index.tsx lines 218-272: done at the end of the try, whatever data.success is;
\* error in the catch, which only a thrown invocation error reaches
TerminalCallOf(o) == IF o = "thrown" THEN "error" ELSE "done"

\* the call of github-remix of job j ends with outcome o and the page sends its
\* terminal call
ExecutorReturns(r, j, o) ==
    /\ cli[j].running > 0
    /\ IF HasQueueId(j)
       THEN /\ SweepStaleStep(r, TerminalCallOf(o), j)
            /\ cli' = [cli EXCEPT ![j].running = @ - 1, ![j].calls = @ + 1]
       ELSE /\ req[r].pc = "idle"
            /\ cli' = [cli EXCEPT ![j].running = @ - 1]
            /\ UNCHANGED <<rows, nextId, now, dbNow, req>>
    /\ out' = [NoOut EXCEPT !.action = "github-remix", !.queue_id = j, !.outcome = o]

\* the steps of a handler on the request a page sent
HandlesClients(r) ==
    \/ ReceiveSent(r)
    \/ JoinInsert(r)
    \/ JoinCountDelivered(r)
    \/ FetchDelivered(r)
    \/ CheckProcessing(r)
    \/ CheckFirstWaiting(r)
    \/ PromoteDelivered(r)
    \/ CountDelivered(r)
    \/ MarkDone(r)
    \/ MarkError(r)

\* pages whose requests overlap, within one reading of the clocks
StepClients(r) ==
    \/ OnPaymentConfirmed(r)
    \/ \E j \in Ids : CheckPosition(r, j)
    \/ \E j \in Ids, o \in Outcomes : ExecutorReturns(r, j, o)
    \/ HandlesClients(r)

NextClients == \E r \in Reqs : StepClients(r)

SpecClients == Init /\ [][NextClients]_vars

\* pages whose requests are answered before the next one is sent, over hours:
\* the clocks move between requests, QuietTickMinutes at a time
OnPaymentConfirmedAlone(r) == NoneInFlight /\ OnPaymentConfirmed(r)

CheckPositionAlone(r, j) == NoneInFlight /\ CheckPosition(r, j)

ExecutorReturnsAlone(r, j, o) == NoneInFlight /\ ExecutorReturns(r, j, o)

StepClientsPrompt(r) ==
    \/ OnPaymentConfirmedAlone(r)
    \/ \E j \in Ids : CheckPositionAlone(r, j)
    \/ \E j \in Ids, o \in Outcomes : ExecutorReturnsAlone(r, j, o)
    \/ HandlesClients(r)

NextClientsPrompt == (\E r \in Reqs : StepClientsPrompt(r)) \/ TickBetweenRequests

SpecClientsPrompt == Init /\ [][NextClientsPrompt]_vars

\* ======== the claims

Processing == {id \in Ids : rows[id].status = "processing"}

\* the step in which handler r leaves pc
Leaves(r, pc) == req[r].pc = pc /\ req'[r].pc # pc

\* C1: mutual exclusion: in every reachable state at most one row of
\* remix_queue has status processing (running).
C1_AtMostOneProcessing == Cardinality(Processing) <= 1

\* C2: atomic promotion: a position poll answers processing with can_start = true
\* on the promotion branch only when its own update took effect, that is, the
\* polled row exists with status processing when the answer is sent.
C2_PromotionAnsweredOnlyWhenWritten ==
    (out.path = "promoted" /\ out.resp.can_start) =>
        (out.hit /\ rows[out.queue_id].status = "processing")

\* C4: a job is promoted at most once and its started_at is written once: the
\* promotion update never changes a row that has been promoted already.
C4_PromotedOnce ==
    [][\A r \in Reqs :
        (Leaves(r, "promote") /\ Exists(rows, req[r].queue_id)) =>
            /\ rows[req[r].queue_id].status # "processing"
            /\ rows[req[r].queue_id].started_at = NULL]_vars

\* C5: status is monotonic: a row that is done or error keeps that status for as
\* long as it exists.
C5_TerminalIsFinal ==
    [][\A id \in Ids :
        (rows[id].status \in FinishedStatuses /\ rows'[id].status # "absent") =>
            rows'[id].status = rows[id].status]_vars

\* C3: FIFO: inside the stale window and with done / error sent only for running
\* jobs, of two jobs A and B with created_at(A) < created_at(B), B is never
\* promoted (its started_at written) before A has been promoted.
C3_PromotedInCreationOrder ==
    \A a \in Ids, b \in Ids :
        (/\ Exists(rows, a) /\ Exists(rows, b)
         /\ rows[a].created_at < rows[b].created_at
         /\ rows[b].started_at # NULL) => rows[a].started_at # NULL

\* C3 witness: three jobs created at distinct instants have all been promoted, the
\* youngest running, the older two done or error.
C3_Witness ==
    \E a \in Ids, b \in Ids, c \in Ids :
        /\ rows[a].status \in FinishedStatuses /\ rows[b].status \in FinishedStatuses
        /\ rows[c].status = "processing"
        /\ rows[a].created_at < rows[b].created_at /\ rows[b].created_at < rows[c].created_at
        /\ rows[a].started_at # NULL /\ rows[b].started_at # NULL

\* C6: a position poll that fetches a row with status processing or done answers
\* exactly that status with position 0, can_start true iff the status is
\* processing, and changes no row.
C6_DirectReport ==
    [][\A r \in Reqs :
        (Leaves(r, "fetch") /\ rows[req[r].queue_id].status \in {"processing", "done"}) =>
            /\ rows' = rows
            /\ out'.queue_id = req[r].queue_id
            /\ out'.resp.kind = "position" /\ out'.resp.success
            /\ out'.resp.status = rows[req[r].queue_id].status
            /\ out'.resp.position = 0
            /\ out'.resp.can_start = (rows[req[r].queue_id].status = "processing")]_vars

\* C6 witness: a poll on a done job has just been answered done, can_start false,
\* while another job is running.
C6_Witness ==
    /\ out.action = "position" /\ out.path = "direct"
    /\ rows[out.queue_id].status = "done"
    /\ out.resp.status = "done" /\ ~out.resp.can_start
    /\ Processing # {}

\* C7: a position poll on an id that has no row answers success with status
\* not_found and position 0, and changes no row.
C7_NotFound ==
    [][\A r \in Reqs :
        (Leaves(r, "fetch") /\ rows[req[r].queue_id].status = "absent") =>
            /\ rows' = rows
            /\ out'.queue_id = req[r].queue_id
            /\ out'.resp.kind = "position" /\ out'.resp.success
            /\ out'.resp.status = "not_found"
            /\ out'.resp.position = 0
            /\ ~out'.resp.can_start]_vars

\* C7 witness: a poll on an id whose row was swept has just been answered
\* not_found (the id had been given out; only the cleanup deletes rows).
C7_Witness ==
    /\ out.action = "position" /\ out.path = "missing"
    /\ out.queue_id < nextId
    /\ out.resp.status = "not_found"

\* C8: done and error on an id that has no row report not-found: the answer is a
\* success, differs from the answer given when a job was marked, and no row changes.
C8_MarkUnknownReportsNotFound ==
    [][\A r \in Reqs :
        ((Leaves(r, "mark_done") \/ Leaves(r, "mark_error")) /\ ~Exists(rows, req[r].queue_id)) =>
            /\ rows' = rows
            /\ out'.resp.success
            /\ out'.resp # OkResp]_vars

\* C9: a position poll whose job is still waiting when the count is taken, and
\* which does not promote it, answers waiting, can_start false, and as position
\* the number of waiting or processing rows with created_at <= the job's
\* created_at, the job itself included.
C9_PositionIsCountAhead ==
    [][\A r \in Reqs :
        (Leaves(r, "count") /\ rows[req[r].queue_id].status = "waiting") =>
            LET mine == rows[req[r].queue_id].created_at
                ahead == {id \in Ids : /\ rows[id].status \in {"waiting", "processing"}
                                       /\ rows[id].created_at <= mine} IN
            /\ req[r].queue_id \in ahead
            /\ out'.resp.position = Cardinality(ahead)
            /\ out'.resp.status = "waiting"
            /\ ~out'.resp.can_start]_vars

\* C9 witness: J1 running, J2 and J3 waiting, created in that order; a poll on J3
\* has just been answered position 3.
C9_Witness ==
    \E j1 \in Ids, j2 \in Ids, j3 \in Ids :
        /\ rows[j1].status = "processing" /\ rows[j2].status = "waiting" /\ rows[j3].status = "waiting"
        /\ rows[j1].created_at < rows[j2].created_at /\ rows[j2].created_at < rows[j3].created_at
        /\ out.action = "position" /\ out.queue_id = j3 /\ out.path = "counted"
        /\ out.resp.position = 3 /\ ~out.resp.can_start

\* C10 as stated: a position poll on any id that found nothing processing and
\* another job at the front of the waiting queue leaves that job running.
C10_AnyPollPromotesFront ==
    [][\A r \in Reqs :
        (Leaves(r, "count") /\ req[r].first # NoId) =>
            rows'[req[r].first].status = "processing"]_vars

\* C10 amended: a position poll promotes only the job it was issued for, and only
\* when it read that job as the oldest waiting one: a poll on another id changes
\* no row and answers waiting with can_start false.
C10_OnlyOwnPollPromotes ==
    [][\A r \in Reqs :
        /\ (Leaves(r, "first_waiting") /\ req[r].queue_id \notin FirstWaiting(rows)) =>
                (req'[r].pc = "count" /\ rows' = rows)
        /\ Leaves(r, "count") =>
                (rows' = rows /\ out'.resp.status = "waiting" /\ ~out'.resp.can_start)
        /\ Leaves(r, "promote") =>
                /\ req[r].first = req[r].queue_id
                /\ \A id \in Ids \ {req[r].queue_id} : rows'[id] = rows[id]
                /\ Exists(rows, req[r].queue_id) => rows'[req[r].queue_id].status = "processing"]_vars

\* C10 witness: nothing is running, J1 is the oldest waiting job, and a poll on the
\* younger waiting J2 has just been answered waiting: J1 is still waiting.
C10_Witness ==
    \E j1 \in Ids, j2 \in Ids :
        /\ NothingProcessing(rows)
        /\ rows[j1].status = "waiting" /\ rows[j2].status = "waiting"
        /\ rows[j1].created_at < rows[j2].created_at
        /\ FirstWaiting(rows) = {j1}
        /\ out.action = "position" /\ out.queue_id = j2 /\ out.path = "counted"
        /\ ~out.resp.can_start

\* C11: slot release, with requests one at a time: once the running job is marked
\* done or error and no row is processing, a position poll on the one oldest
\* waiting job is never answered waiting: it sets that job to processing and
\* answers processing, can_start true, position 0.
C11_SlotRelease ==
    /\ (out.action = "position" /\ out.path = "counted") =>
            ~(Processing = {} /\ FirstWaiting(rows) = {out.queue_id})
    /\ (out.action = "position" /\ out.path = "promoted") =>
            /\ out.hit /\ ~out.again
            /\ rows[out.queue_id].status = "processing"
            /\ Processing = {out.queue_id}
            /\ out.resp.status = "processing" /\ out.resp.can_start /\ out.resp.position = 0

\* C11 witness: J1 ran and was marked done or error after J2 had joined behind it;
\* the poll on J2 has just promoted it.
C11_Witness ==
    \E j1 \in Ids, j2 \in Ids :
        /\ rows[j1].status \in FinishedStatuses
        /\ rows[j1].started_at # NULL /\ rows[j1].finished_at # NULL
        /\ rows[j1].created_at < rows[j2].created_at
        /\ rows[j2].created_at <= rows[j1].finished_at
        /\ out.action = "position" /\ out.queue_id = j2 /\ out.path = "promoted"
        /\ out.hit /\ rows[j2].status = "processing"
        /\ out.resp.can_start

\* C12: position monotonicity: for a job that stays waiting, the number of waiting
\* or processing rows counted at or ahead of it (what a position poll answers)
\* never grows in a step, whatever the interleaving of joins, promotions,
\* done / error calls and sweeps; a row inserted by the step itself, at the job's
\* own instant, is left out of the comparison.
C12_PositionNeverIncreases ==
    [][\A id \in Ids :
        (rows[id].status = "waiting" /\ rows'[id].status = "waiting") =>
            LET mine == rows[id].created_at
                aheadNow == {o \in Ids : rows[o].status \in {"waiting", "processing"} /\ rows[o].created_at <= mine}
                aheadNext == {o \in Ids : /\ rows'[o].status \in {"waiting", "processing"}
                                           /\ rows'[o].created_at <= mine
                                           /\ rows[o].status # "absent"} IN
            Cardinality(aheadNext) <= Cardinality(aheadNow)]_vars

\* C13: done on a job that is already done leaves it done, and its finished_at is
\* always the instant of the later call: the update overwrites it, whatever it
\* was, and keeps created_at and started_at and every other row.
C13_DoneTwiceOverwrites ==
    [][\A r \in Reqs :
        (Leaves(r, "mark_done") /\ rows[req[r].queue_id].status = "done") =>
            /\ rows' = [rows EXCEPT ![req[r].queue_id].finished_at = now]
            /\ out'.resp = OkResp]_vars

\* C13 witness: a job marked done at one instant has just been marked done again
\* at a later one, and carries the later finished_at.
C13_Witness ==
    /\ out.action = "done" /\ out.hit /\ out.again
    /\ rows[out.queue_id].status = "done"
    /\ rows[out.queue_id].finished_at = now

\* C14: sweeper safety against promotion: a row just promoted (its poll has been
\* answered can_start true) is not removed by the next request's cleanup, and a
\* waiting row is not removed while a poll on it stands between its checks and
\* its promotion write.
C14_SweeperSparesPromotion ==
    [][/\ (out.path = "promoted" /\ out.hit /\ Exists(rows, out.queue_id)) =>
                Exists(rows', out.queue_id)
       /\ \A r \in Reqs :
            (/\ req[r].pc \in {"check_processing", "first_waiting", "promote"}
             /\ rows[req[r].queue_id].status = "waiting") =>
                Exists(rows', req[r].queue_id)]_vars

\* C15: a row with status waiting or processing is removed only when its
\* created_at is more than StaleMinutes before the clock of the request that
\* removes it: no younger waiting or running row is ever deleted.
C15_OnlyStaleActiveRowsDeleted ==
    [][\A id \in Ids :
        (rows[id].status \in {"waiting", "processing"} /\ rows'[id].status = "absent") =>
            rows[id].created_at < now - StaleMinutes]_vars

\* C15 witness: a waiting row that a poll had read has been deleted by the stale
\* cleanup, more than StaleMinutes after its creation (before RetentionMinutes
\* no other delete removes a row), while a running row younger than the
\* threshold has been kept.
C15_Witness ==
    \E r \in Reqs, o \in Ids :
        /\ req[r].pc = "promote"
        /\ rows[req[r].queue_id].status = "absent"
        /\ req[r].my_created_at < now - StaleMinutes
        /\ now <= RetentionMinutes
        /\ rows[o].status = "processing"
        /\ rows[o].created_at >= now - StaleMinutes

\* C16: retention of finished jobs: a row with status done or error is removed
\* only when its finished_at (its created_at when finished_at is not set) is more
\* than RetentionMinutes before the clock of the request that removes it.
C16_FinishedKeptForRetention ==
    [][\A id \in Ids :
        (rows[id].status \in {"done", "error"} /\ rows'[id].status = "absent") =>
            LET since == IF rows[id].finished_at # NULL THEN rows[id].finished_at ELSE rows[id].created_at IN
            since < now - RetentionMinutes]_vars

\* C17: timestamp invariant: for every row, started_at is null iff the status is
\* waiting, and finished_at is set iff the status is done or error.
C17_TimestampsMatchStatus ==
    \A id \in Ids :
        Exists(rows, id) =>
            /\ (rows[id].started_at = NULL) <=> (rows[id].status = "waiting")
            /\ (rows[id].finished_at # NULL) <=> (rows[id].status \in {"done", "error"})

\* C18: a position poll answers not_found only when the row does not exist: a
\* store failure while the row is fetched is not reported as not_found.
C18_NotFoundOnlyWhenMissing ==
    (out.action = "position" /\ out.resp.status = "not_found") =>
        ~Exists(rows, out.queue_id)

\* C19: a store failure in a read of a position poll is answered with an error
\* response and causes no promotion: a failed count is not answered with a
\* position, a poll that finds (or fails to read) a running job does not go on to
\* the oldest-waiting query, and a poll promotes its job only while no other job
\* is running.
C19_ReadFailuresPropagate ==
    [][\A r \in Reqs :
        /\ out'.path = "count_failed" => out'.resp = ErrorResp
        /\ (Leaves(r, "check_processing") /\ Processing # {}) => req'[r].pc # "first_waiting"
        /\ Leaves(r, "promote") => Processing \subseteq {req[r].queue_id}]_vars

\* C20: enqueue: the insert of a join adds exactly one row, with status waiting,
\* created_at the store's now() and null started_at and finished_at, and changes
\* no other row; the answer carries the id of that row and a position >= 1, which
\* is the number of waiting or processing rows with created_at <= the new row's
\* (the new row included) as long as the new row is still waiting or processing
\* when they are counted.
C20_Enqueue ==
    [][\A r \in Reqs :
        /\ Leaves(r, "insert") =>
                LET id == req'[r].queue_id IN
                /\ id \in Ids /\ rows[id].status = "absent"
                /\ rows'[id] = [status |-> "waiting", created_at |-> dbNow, started_at |-> NULL, finished_at |-> NULL]
                /\ \A o \in Ids \ {id} : rows'[o] = rows[o]
        /\ Leaves(r, "join_count") =>
                LET id == req[r].queue_id
                    ahead == {o \in Ids : /\ rows[o].status \in {"waiting", "processing"}
                                           /\ rows[o].created_at <= rows[id].created_at} IN
                /\ rows' = rows
                /\ out'.resp.kind = "join" /\ out'.resp.success
                /\ out'.resp.queue_id = id
                /\ out'.resp.position >= 1
                /\ rows[id].status \in {"waiting", "processing"} =>
                        (id \in ahead /\ out'.resp.position = Cardinality(ahead))]_vars

\* C20 witness: with J1 running and J2 waiting, J3 has just joined at a later
\* instant and has been answered its id and position 3.
C20_Witness ==
    \E j1 \in Ids, j2 \in Ids, j3 \in Ids :
        /\ rows[j1].status = "processing" /\ rows[j2].status = "waiting"
        /\ rows[j3] = [status |-> "waiting", created_at |-> dbNow, started_at |-> NULL, finished_at |-> NULL]
        /\ rows[j1].created_at < rows[j2].created_at /\ rows[j2].created_at < rows[j3].created_at
        /\ out.action = "join" /\ out.path = "joined"
        /\ out.resp.queue_id = j3 /\ out.resp.position = 3

\* C26: a position poll on a waiting job that is not the one to be admitted,
\* because another job is running or because an older job is waiting, goes to the
\* count and is answered success with status waiting and can_start = false; the
\* processing check, the firstWaiting check and the count leave every row as it
\* is.
C26_NotMyTurnChangesNothing ==
    [][\A r \in Reqs :
        LET q == req[r].queue_id IN
        (req[r].action = "position" /\ q \in Ids /\ rows[q].status = "waiting") =>
            /\ (/\ Leaves(r, "check_processing")
                /\ \E p \in Ids : rows[p].status = "processing") =>
                    req'[r].pc = "count" /\ rows' = rows
            /\ (/\ Leaves(r, "first_waiting")
                /\ \E o \in Ids : rows[o].status = "waiting" /\ rows[o].created_at < rows[q].created_at) =>
                    req'[r].pc = "count" /\ rows' = rows
            /\ Leaves(r, "count") =>
                    /\ rows' = rows
                    /\ out'.action = "position" /\ out'.queue_id = q
                    /\ out'.resp.kind = "position" /\ out'.resp.success
                    /\ out'.resp.status = "waiting" /\ ~out'.resp.can_start
                    /\ out'.resp.position >= 1
                    /\ cli'[q] = cli[q]]_vars

\* C26 witness: nothing is running, J1 has been waiting for longer than J2, and
\* the poll of J2 has just been answered status waiting, position 2,
\* can_start = false; J1 is still waiting and J2's page is still polling with
\* nothing started.
C26_Witness ==
    \E j1 \in Ids, j2 \in Ids :
        /\ rows[j1].status = "waiting" /\ rows[j2].status = "waiting"
        /\ rows[j1].created_at < rows[j2].created_at
        /\ \A p \in Ids : rows[p].status # "processing"
        /\ out.action = "position" /\ out.path = "counted" /\ out.queue_id = j2
        /\ out.resp.status = "waiting" /\ ~out.resp.can_start /\ out.resp.position = 2
        /\ cli[j2].polling /\ cli[j2].starts = 0

\* the jobs whose executor call is in progress
Executing == {j \in Ids : cli[j].running > 0}

\* C27: executor-level mutual exclusion: at no time are the pages of two
\* different jobs inside the job executor call.
C27_OneJobExecuting ==
    Cardinality(Executing) <= 1

\* C28: a page enters executeRemix at most once for the job it enqueued, also
\* when two of its polls overlap and both are answered can_start = true.
C28_ExecutorStartedOncePerJob ==
    \A j \in Ids : cli[j].starts <= 1

\* C29: a position poll never answers status waiting for a row whose stored
\* status is not waiting; in particular a poll on a job whose stored status is
\* error is not answered status waiting with a queue position.
C29_WaitingOnlyForWaitingRows ==
    (out.action = "position" /\ out.resp.kind = "position" /\ out.resp.status = "waiting") =>
        rows[out.queue_id].status = "waiting"

\* C21: a page enters executeRemix (and calls the job executor) for its job only
\* in the step in which a position poll for that job is answered can_start = true;
\* the answer of a join, whatever position it carries, starts nothing.
C21_ExecutorOnlyAfterCanStart ==
    [][\A j \in Ids :
        /\ (cli'[j].starts > cli[j].starts \/ cli'[j].running > cli[j].running) =>
                /\ out'.action = "position" /\ out'.queue_id = j
                /\ out'.resp.kind = "position" /\ out'.resp.can_start
        /\ (out'.action = "join" /\ out'.resp.queue_id = j) =>
                /\ cli'[j].starts = 0 /\ cli'[j].running = 0
                /\ cli'[j].polling]_vars

\* C21 witness: the poll of J1 has just been answered can_start = true and its
\* page has started the executor, while J2, which has joined and is polling, has
\* started nothing.
C21_Witness ==
    \E j \in Ids, k \in Ids :
        /\ k # j
        /\ out.action = "position" /\ out.queue_id = j /\ out.resp.can_start
        /\ cli[j].starts = 1 /\ cli[j].running = 1 /\ ~cli[j].polling
        /\ rows[k].status = "waiting" /\ cli[k].polling
        /\ cli[k].starts = 0

\* a terminal call (done or error) for job j is sent in this step
SendsTerminal(j) ==
    \E r \in Reqs :
        /\ req[r].pc = "idle" /\ req'[r].pc = "sweep_old"
        /\ req'[r].queue_id = j /\ req'[r].action \in {"done", "error"}
        /\ \A r2 \in Reqs \ {r} : req'[r2] = req[r2]

\* C22: when an executor call of an admitted job returns or fails, its page
\* sends exactly one terminal call for that job's queue id, done or error, in
\* the same step; no terminal call is sent at any other moment, so that every
\* executor call that was started is either still running or has had its one
\* terminal call.
C22_OneTerminalCallPerExecution ==
    [][\A j \in Ids :
        /\ cli'[j].running < cli[j].running =>
                /\ cli'[j].running = cli[j].running - 1
                /\ SendsTerminal(j)
                /\ cli'[j].calls = cli[j].calls + 1
        /\ SendsTerminal(j) => cli'[j].running = cli[j].running - 1
        /\ cli'[j].calls # cli[j].calls => cli'[j].running < cli[j].running
        /\ cli[j].calls + cli[j].running = cli[j].starts]_vars

\* C22 witness: the executor call of J1 has failed, its page has sent its one
\* terminal call, and that call has just marked J1 as error.
C22_Witness ==
    \E j \in Ids :
        /\ cli[j].starts = 1 /\ cli[j].running = 0 /\ cli[j].calls = 1
        /\ out.action = "error" /\ out.queue_id = j /\ out.hit
        /\ rows[j].status = "error"
        /\ \A r \in Reqs : req[r].queue_id # j

\* C23: when a position poll is answered status not_found, the page treats it
\* as terminal: its polling interval is no longer set after the answer, so no
\* further poll is sent for that queue id.
C23_NotFoundStopsPolling ==
    [][(out'.action = "position" /\ out'.resp.kind = "position" /\ out'.resp.status = "not_found") =>
            ~cli'[out'.queue_id].polling]_vars

\* C24: stale-job recovery: a running job whose page never sends done or error
\* keeps the slot only until its created_at is more than StaleMinutes old; the
\* cleanup at the head of the next request deletes it and leaves a younger
\* running row alone; when every running row was stale nothing is running after
\* that cleanup, and the poll of the oldest remaining waiting job then promotes
\* it and answers can_start = true.
C24_StaleRunningJobRecovered ==
    [][\A r \in Reqs :
        /\ Leaves(r, "idle") =>
            /\ \A id \in Ids :
                rows[id].status = "processing" =>
                    IF rows[id].created_at < now - StaleMinutes
                    THEN rows'[id].status = "absent"
                    ELSE rows'[id] = rows[id]
            /\ (\A id \in Ids : rows[id].status = "processing" => rows[id].created_at < now - StaleMinutes) =>
                    \A id \in Ids : rows'[id].status # "processing"
        /\ LET q == req[r].queue_id IN
            (/\ req[r].action = "position"
             /\ req[r].pc \in {"check_processing", "first_waiting", "promote"}
             /\ \A id \in Ids : rows[id].status # "processing"
             /\ rows[q].status = "waiting"
             /\ \A o \in Ids \ {q} : rows[o].status = "waiting" => rows[o].created_at > rows[q].created_at) =>
                /\ req'[r].pc \in {"first_waiting", "promote", "idle"}
                /\ Leaves(r, "promote") =>
                    /\ rows'[q].status = "processing" /\ rows'[q].started_at = now
                    /\ out'.queue_id = q /\ out'.resp.can_start]_vars

\* C24 witness: J1 was admitted and its page, still inside the executor call, has
\* sent no terminal call; J1's row has been deleted by the cleanup, and the poll
\* of J2 has just promoted J2, the only running row.
C24_Witness ==
    \E j1 \in Ids, j2 \in Ids :
        /\ j1 # j2
        /\ cli[j1].starts = 1 /\ cli[j1].running = 1 /\ cli[j1].calls = 0
        /\ rows[j1].status = "absent"
        /\ out.action = "position" /\ out.path = "promoted" /\ out.queue_id = j2
        /\ out.resp.can_start
        /\ rows[j2].status = "processing" /\ rows[j2].started_at = now
        /\ \A id \in Ids \ {j2} : rows[id].status # "processing"

\* C25: under cooperation (every page polls while its job waits and sends its
\* terminal call once its executor call ends) every enqueued job reaches status
\* running; as the safety half of it, a waiting job whose page is polling is not
\* deleted while it waits behind a job that is still being executed.
C25_WaitingJobNotDeleted ==
    [][\A id \in Ids :
        (/\ rows[id].status = "waiting" /\ cli[id].polling
         /\ \E p \in Ids : rows[p].status = "processing" /\ cli[p].running > 0) =>
            rows'[id].status # "absent"]_vars

\* C30: the terminal call a page sends matches the outcome of its executor call:
\* done only when the executor reports success, error when it reports failure
\* (an answer with success = false, or a failed invocation).
C30_TerminalCallMatchesOutcome ==
    [][\A j \in Ids, r \in Reqs :
        (/\ cli'[j].running < cli[j].running
         /\ req[r].pc = "idle" /\ req'[r].pc = "sweep_old" /\ req'[r].queue_id = j) =>
            req'[r].action = (IF out'.outcome = "success" THEN "done" ELSE "error")]_vars

TypeOK ==
    /\ nextId \in 1..(MaxJobs + 1)
    /\ \A j \in Ids : cli[j].starts \in 0..MaxReq /\ cli[j].running \in 0..cli[j].starts
    /\ now \in 0..MaxTime \cup 0..MaxQuietTime
    /\ \A id \in Ids : rows[id].status \in {"absent", "waiting", "processing", "done", "error"}

====
